---- MODULE Spec2Model ----
(***************************************************************************)
(* eshu-trace: the package differ (package_diff.rs), the change sequencer  *)
(* and the bisection session (bisect.rs), as a state machine.              *)
(*                                                                         *)
(* A string is a sequence of one-character strings, so that splitting a    *)
(* version string and parsing its tokens are computed and not assumed.     *)
(* An Option<T> is a sequence of length at most one: None is <<>>.         *)
(***************************************************************************)
EXTENDS Integers, Sequences, FiniteSets, TLC

VARIABLES
    pc,             \* position of the caller / of run_manual
    good_snapshot,  \* Snapshot given as the working state
    bad_snapshot,   \* Snapshot given as the broken state
    packages1,      \* compute_diff: the map resolved for snapshot1 (Option)
    packages2,      \* compute_diff: the map resolved for snapshot2 (Option)
    diff,           \* the PackageDiff compute_diff returned (Option)
    session,        \* the BisectSession (Option)
    transcript,     \* oracle calls so far: [mid, ok, issue_occurs]
    result,         \* what the run returned: "none", "Ok" or the error
    compare,        \* a call of version_compare: its arguments and result (Option)
    offer,          \* a call of PackageFixer::offer_fix: culprit and options (Option)
    license_file,   \* the TraceLicense stored in license.json (Option: None = no file)
    invocations,    \* the running `bisect` commands: process -> its locals
    traces_before   \* history: traces_used stored before the invocations

vars == <<pc, good_snapshot, bad_snapshot, packages1, packages2, diff,
          session, transcript, result, compare, offer, license_file,
          invocations, traces_before>>

None == <<>>
Some(x) == <<x>>

\* no bisect command is being run
NoCommand == license_file = None /\ invocations = <<>> /\ traces_before = 0

-----------------------------------------------------------------------------
(* Bounds of the model                                                     *)

\* number of package names in the state maps of the differ's specification
MaxNames == 2
\* packages of each change kind in the session's specification
MaxPerKind == 2

-----------------------------------------------------------------------------
(* Strings                                                                  *)

V_1_0 == <<"1", ".", "0">>
V_1_1 == <<"1", ".", "1">>
V_1_0_rc1 == <<"1", ".", "0", "-", "r", "c", "1">>

Versions == {V_1_0, V_1_1, V_1_0_rc1}

Names == {"pkg" \o ToString(i) : i \in 1..MaxNames}

Delimiters == {".", "-", "_"}

DigitChars == {"0", "1", "2", "3", "4", "5", "6", "7", "8", "9"}

DigitVal(c) ==
    CASE c = "0" -> 0 [] c = "1" -> 1 [] c = "2" -> 2 [] c = "3" -> 3
      [] c = "4" -> 4 [] c = "5" -> 5 [] c = "6" -> 6 [] c = "7" -> 7
      [] c = "8" -> 8 [] c = "9" -> 9

\* str::split on a set of delimiter characters: the pieces between the
\* delimiters, empty pieces included
RECURSIVE SplitFrom(_, _, _, _)
SplitFrom(s, i, cur, acc) ==
    IF i > Len(s) THEN Append(acc, cur)
    ELSE IF s[i] \in Delimiters
         THEN SplitFrom(s, i + 1, <<>>, Append(acc, cur))
         ELSE SplitFrom(s, i + 1, Append(cur, s[i]), acc)

split(s) == SplitFrom(s, 1, <<>>, <<>>)

\* u32::MAX = 4294967295, as its decimal digits
U32MaxDigits == <<4, 2, 9, 4, 9, 6, 7, 2, 9, 5>>

RECURSIVE StripZeros(_)
StripZeros(ds) ==
    IF Len(ds) > 0 /\ ds[1] = 0 THEN StripZeros(Tail(ds)) ELSE ds

\* a < b for two numbers given as digits without leading zeros
DigitsLess(a, b) ==
    \/ Len(a) < Len(b)
    \/ /\ Len(a) = Len(b)
       /\ \E i \in 1..Len(a) :
            /\ a[i] < b[i]
            /\ \A j \in 1..(i - 1) : a[j] = b[j]

\* str::parse::<u32>().ok(): an optional '+', then one or more decimal digits
\* whose value fits 32 bits. The value is kept as its digits without leading
\* zeros (zero is the empty digit sequence).
parse_u32(tok) ==
    LET body == IF Len(tok) > 1 /\ tok[1] = "+" THEN Tail(tok) ELSE tok
        digits == [i \in 1..Len(body) |-> DigitVal(body[i])]
    IN  IF Len(body) = 0 \/ \E i \in 1..Len(body) : body[i] \notin DigitChars
        THEN None
        ELSE LET n == StripZeros(digits)
             IN  IF DigitsLess(U32MaxDigits, n) THEN None ELSE Some(n)

\* .filter_map(|s| s.parse().ok()).collect()
RECURSIVE FilterParse(_)
FilterParse(toks) ==
    IF toks = <<>> THEN <<>>
    ELSE parse_u32(Head(toks)) \o FilterParse(Tail(toks))

version_parts(v) == FilterParse(split(v))

RECURSIVE ZipCompare(_, _, _)
ZipCompare(parts1, parts2, i) ==
    IF i > Len(parts1) \/ i > Len(parts2) THEN Len(parts1) > Len(parts2)
    ELSE IF DigitsLess(parts2[i], parts1[i]) THEN TRUE
    ELSE IF DigitsLess(parts1[i], parts2[i]) THEN FALSE
    ELSE ZipCompare(parts1, parts2, i + 1)

\* mutant: equal sequences of equal length count as an upgrade
RECURSIVE ZipCompareNonstrict(_, _, _)
ZipCompareNonstrict(parts1, parts2, i) ==
    IF i > Len(parts1) \/ i > Len(parts2) THEN Len(parts1) >= Len(parts2)
    ELSE IF DigitsLess(parts2[i], parts1[i]) THEN TRUE
    ELSE IF DigitsLess(parts1[i], parts2[i]) THEN FALSE
    ELSE ZipCompareNonstrict(parts1, parts2, i + 1)

version_compare_nonstrict(v1, v2) ==
    ZipCompareNonstrict(version_parts(v1), version_parts(v2), 1)

version_compare(v1, v2) == ZipCompare(version_parts(v1), version_parts(v2), 1)

-----------------------------------------------------------------------------
(* The package differ and the change sequencer                             *)

Package(name, version) == [name |-> name, version |-> version]

\* every map from some of the names to versions
StateMaps == UNION {[D -> Versions] : D \in SUBSET Names}

\* the orders in which a HashSet may yield its elements
RECURSIVE Orderings(_)
Orderings(S) ==
    IF S = {} THEN {<<>>}
    ELSE UNION {{<<x>> \o t : t \in Orderings(S \ {x})} : x \in S}

\* the maps get_packages_for_snapshot may return: the embedded map when the
\* snapshot has one, else whatever detect_current_packages finds installed
\* at the time of the call (one of `lists`)
get_packages_for_snapshot(snapshot, lists) ==
    IF snapshot.packages # None THEN {snapshot.packages[1]} ELSE lists

added_in(p1, p2, order) ==
    [i \in 1..Len(order) |-> Package(order[i], p2[order[i]])]

removed_in(p1, p2, order) ==
    [i \in 1..Len(order) |-> Package(order[i], p1[order[i]])]

\* mutant: the test for differing versions left out
RECURSIVE version_changes_unfiltered(_, _, _, _)
version_changes_unfiltered(p1, p2, order, acc) ==
    IF order = <<>> THEN acc
    ELSE LET name == Head(order)
             ver1 == p1[name]
             ver2 == p2[name]
             entry == [pkg |-> Package(name, ver2), old_ver |-> ver1,
                       new_ver |-> ver2]
         IN  IF version_compare(ver2, ver1)
             THEN version_changes_unfiltered(p1, p2, Tail(order),
                    [acc EXCEPT !.upgraded = Append(@, entry)])
             ELSE version_changes_unfiltered(p1, p2, Tail(order),
                    [acc EXCEPT !.downgraded = Append(@, entry)])

\* mutant: a changed version that is no upgrade is not recorded
RECURSIVE version_changes_upgrades_only(_, _, _, _)
version_changes_upgrades_only(p1, p2, order, acc) ==
    IF order = <<>> THEN acc
    ELSE LET name == Head(order)
             ver1 == p1[name]
             ver2 == p2[name]
             entry == [pkg |-> Package(name, ver2), old_ver |-> ver1,
                       new_ver |-> ver2]
         IN  IF ver1 # ver2 /\ version_compare(ver2, ver1)
             THEN version_changes_upgrades_only(p1, p2, Tail(order),
                    [acc EXCEPT !.upgraded = Append(@, entry)])
             ELSE version_changes_upgrades_only(p1, p2, Tail(order), acc)

\* mutant: the comparator called with its arguments exchanged
RECURSIVE version_changes_reversed(_, _, _, _)
version_changes_reversed(p1, p2, order, acc) ==
    IF order = <<>> THEN acc
    ELSE LET name == Head(order)
             ver1 == p1[name]
             ver2 == p2[name]
             entry == [pkg |-> Package(name, ver2), old_ver |-> ver1,
                       new_ver |-> ver2]
         IN  IF ver1 # ver2
             THEN IF version_compare(ver1, ver2)
                  THEN version_changes_reversed(p1, p2, Tail(order),
                         [acc EXCEPT !.upgraded = Append(@, entry)])
                  ELSE version_changes_reversed(p1, p2, Tail(order),
                         [acc EXCEPT !.downgraded = Append(@, entry)])
             ELSE version_changes_reversed(p1, p2, Tail(order), acc)

\* the loop over keys1.intersection(&keys2), in the order the set yields
RECURSIVE version_changes(_, _, _, _)
version_changes(p1, p2, order, acc) ==
    IF order = <<>> THEN acc
    ELSE LET name == Head(order)
             ver1 == p1[name]
             ver2 == p2[name]
             entry == [pkg |-> Package(name, ver2), old_ver |-> ver1,
                       new_ver |-> ver2]
         IN  IF ver1 # ver2
             THEN IF version_compare(ver2, ver1)
                  THEN version_changes(p1, p2, Tail(order),
                         [acc EXCEPT !.upgraded = Append(@, entry)])
                  ELSE version_changes(p1, p2, Tail(order),
                         [acc EXCEPT !.downgraded = Append(@, entry)])
             ELSE version_changes(p1, p2, Tail(order), acc)

\* mutant: added taken from all of keys2, the difference left out
compute_diff_added_all(p1, p2) ==
    LET keys1 == DOMAIN p1
        keys2 == DOMAIN p2
    IN  { [added      |-> added_in(p1, p2, oa),
           removed    |-> removed_in(p1, p2, or),
           upgraded   |-> vc.upgraded,
           downgraded |-> vc.downgraded] :
            oa \in Orderings(keys2),
            or \in Orderings(keys1 \ keys2),
            vc \in { version_changes(p1, p2, o,
                        [upgraded |-> <<>>, downgraded |-> <<>>]) :
                     o \in Orderings(keys1 \cap keys2) } }

\* the PackageDiffs compute_diff may return for two resolved maps: one for
\* each iteration order of the three key sets
compute_diff(p1, p2) ==
    LET keys1 == DOMAIN p1
        keys2 == DOMAIN p2
    IN  { [added      |-> added_in(p1, p2, oa),
           removed    |-> removed_in(p1, p2, or),
           upgraded   |-> vc.upgraded,
           downgraded |-> vc.downgraded] :
            oa \in Orderings(keys2 \ keys1),
            or \in Orderings(keys1 \ keys2),
            vc \in { version_changes(p1, p2, o,
                        [upgraded |-> <<>>, downgraded |-> <<>>]) :
                     o \in Orderings(keys1 \cap keys2) } }

total_changes(d) ==
    Len(d.added) + Len(d.removed) + Len(d.upgraded) + Len(d.downgraded)

\* mutant: the removed packages put first
all_changes_removed_first(d) ==
    [i \in 1..Len(d.removed) |-> [kind |-> "Removed", pkg |-> d.removed[i]]]
    \o [i \in 1..Len(d.added) |-> [kind |-> "Added", pkg |-> d.added[i]]]
    \o [i \in 1..Len(d.upgraded) |->
          [kind |-> "Upgraded", pkg |-> d.upgraded[i].pkg,
           old_ver |-> d.upgraded[i].old_ver, new_ver |-> d.upgraded[i].new_ver]]
    \o [i \in 1..Len(d.downgraded) |->
          [kind |-> "Downgraded", pkg |-> d.downgraded[i].pkg,
           old_ver |-> d.downgraded[i].old_ver,
           new_ver |-> d.downgraded[i].new_ver]]

all_changes(d) ==
    [i \in 1..Len(d.added) |-> [kind |-> "Added", pkg |-> d.added[i]]]
    \o [i \in 1..Len(d.removed) |-> [kind |-> "Removed", pkg |-> d.removed[i]]]
    \o [i \in 1..Len(d.upgraded) |->
          [kind |-> "Upgraded", pkg |-> d.upgraded[i].pkg,
           old_ver |-> d.upgraded[i].old_ver, new_ver |-> d.upgraded[i].new_ver]]
    \o [i \in 1..Len(d.downgraded) |->
          [kind |-> "Downgraded", pkg |-> d.downgraded[i].pkg,
           old_ver |-> d.downgraded[i].old_ver,
           new_ver |-> d.downgraded[i].new_ver]]

\* PackageChange::name
change_name(c) == c.pkg.name

-----------------------------------------------------------------------------
(* The bisection session                                                   *)

Snapshot(id, packages) == [id |-> id, packages |-> packages]

\* mutant: the emptiness check left out
BisectSession_new_unchecked(package_changes) ==
    LET total == Len(package_changes)
    IN  [ok |-> TRUE,
         session |-> [package_changes |-> package_changes,
                      current_low     |-> 0,
                      current_high    |-> total,
                      current_mid     |-> total \div 2,
                      found_culprit   |-> None]]

\* BisectSession::new after the diff: the error on an empty change list,
\* else the session with the cursor on the whole list
BisectSession_new(package_changes) ==
    IF package_changes = <<>>
    THEN [ok |-> FALSE, err |-> "NoPackageChanges"]
    ELSE LET total == Len(package_changes)
         IN  [ok |-> TRUE,
              session |-> [package_changes |-> package_changes,
                           current_low     |-> 0,
                           current_high    |-> total,
                           current_mid     |-> total \div 2,
                           found_culprit   |-> None]]

total_packages(s) == Len(s.package_changes)

\* (n as f64).log2().ceil() as usize, for n >= 1
RECURSIVE CeilLog2From(_, _, _)
CeilLog2From(n, steps, pow) ==
    IF pow >= n THEN steps ELSE CeilLog2From(n, steps + 1, 2 * pow)

total_steps(n) == CeilLog2From(n, 0, 1)

\* mutant: the loop runs while the interval is non-empty
loop_condition_inclusive(s) == s.current_low < s.current_high

\* while self.current_low < self.current_high - 1
loop_condition(s) == s.current_low < s.current_high - 1

\* mutant: a linear scan, mid one past low
set_mid_linear(s) == [s EXCEPT !.current_mid = s.current_low + 1]

\* mutant: the midpoint rounded up
set_mid_rounded_up(s) ==
    [s EXCEPT !.current_mid = (s.current_low + s.current_high + 1) \div 2]

\* mutant: the midpoint is not recomputed in the loop
set_mid_stale(s) == s

\* self.current_mid = (self.current_low + self.current_high) / 2
set_mid(s) ==
    [s EXCEPT !.current_mid = (s.current_low + s.current_high) \div 2]

\* the prefix put to the oracle: &self.package_changes[..self.current_mid]
test_packages(s) == SubSeq(s.package_changes, 1, s.current_mid)

\* mutant: the two branches exchanged
answer_step_swapped(s, issue_occurs) ==
    IF issue_occurs
    THEN [s EXCEPT !.current_low = s.current_mid]
    ELSE [s EXCEPT !.current_high = s.current_mid]

\* mutant: the lower bound moved past mid
answer_step_past_mid(s, issue_occurs) ==
    IF issue_occurs
    THEN [s EXCEPT !.current_high = s.current_mid]
    ELSE [s EXCEPT !.current_low = s.current_mid + 1]

\* mutant: package_changes cut down to the half kept
answer_step_truncating(s, issue_occurs) ==
    IF issue_occurs
    THEN [s EXCEPT !.current_high = s.current_mid,
                   !.package_changes = SubSeq(@, 1, s.current_mid)]
    ELSE [s EXCEPT !.current_low = s.current_mid]

\* the branch on the oracle's answer
answer_step(s, issue_occurs) ==
    IF issue_occurs
    THEN [s EXCEPT !.current_high = s.current_mid]
    ELSE [s EXCEPT !.current_low = s.current_mid]

\* after the loop: record package_changes[current_low] (0-based) as culprit
record_culprit(s) ==
    IF s.current_low < Len(s.package_changes)
    THEN [s EXCEPT !.found_culprit = Some(s.package_changes[s.current_low + 1])]
    ELSE s

TheSession == session[1]

\* BisectSession::new(good_snapshot, bad_snapshot)
New(lists) ==
    /\ pc = "start"
    /\ \E p1 \in get_packages_for_snapshot(good_snapshot, lists),
          p2 \in get_packages_for_snapshot(bad_snapshot, lists) :
         \E d \in compute_diff(p1, p2) :
            LET made == BisectSession_new(all_changes(d))
            IN  /\ packages1' = Some(p1)
                /\ packages2' = Some(p2)
                /\ diff' = Some(d)
                /\ IF made.ok
                   THEN /\ session' = Some(made.session)
                        /\ pc' = "constructed"
                        /\ result' = result
                   ELSE /\ session' = None
                        /\ pc' = "failed"
                        /\ result' = made.err
    /\ UNCHANGED <<license_file, invocations, traces_before, compare, offer, good_snapshot, bad_snapshot, transcript>>

\* run_manual up to its loop
RunManual ==
    /\ pc = "constructed"
    /\ pc' = "loop"
    /\ UNCHANGED <<license_file, invocations, traces_before, compare, offer, good_snapshot, bad_snapshot, packages1,
                   packages2, diff,
                   session, transcript, result>>

\* one pass of the loop up to the blocking Confirm prompt
Ask ==
    /\ pc = "loop"
    /\ loop_condition(TheSession)
    /\ session' = Some(set_mid(TheSession))
    /\ pc' = "asking"
    /\ UNCHANGED <<license_file, invocations, traces_before, compare, offer, good_snapshot, bad_snapshot, packages1,
                   packages2, diff,
                   transcript, result>>

\* the prompt returns Ok(issue_occurs); the rest of the loop body
Answer(issue_occurs) ==
    /\ pc = "asking"
    /\ session' = Some(answer_step(TheSession, issue_occurs))
    /\ transcript' = Append(transcript,
                       [mid |-> TheSession.current_mid, ok |-> TRUE,
                        issue_occurs |-> issue_occurs])
    /\ pc' = "loop"
    /\ UNCHANGED <<license_file, invocations, traces_before, compare, offer, good_snapshot, bad_snapshot, packages1,
                   packages2, diff,
                   result>>

\* mutant: the prompt's error swallowed and the step tried again
oracle_error_retried(s) == [session |-> s, pc |-> "loop", result |-> "none"]

\* mutant: the cursor put back to the whole list before the error returns
oracle_error_reset(s) ==
    [session |-> [s EXCEPT !.current_low = 0,
                           !.current_high = Len(s.package_changes)],
     pc |-> "failed", result |-> "OracleFailure"]

\* the prompt returns Err: `?` returns it from run_manual
oracle_error(s) == [session |-> s, pc |-> "failed", result |-> "OracleFailure"]

OracleFail ==
    /\ pc = "asking"
    /\ LET out == oracle_error(TheSession)
       IN  /\ session' = Some(out.session)
           /\ pc' = out.pc
           /\ result' = out.result
    /\ transcript' = Append(transcript,
                       [mid |-> TheSession.current_mid, ok |-> FALSE,
                        issue_occurs |-> FALSE])
    /\ UNCHANGED <<license_file, invocations, traces_before, compare, offer, good_snapshot, bad_snapshot, packages1,
                   packages2, diff>>

\* the loop condition is false: record the culprit, return Ok(())
Finish ==
    /\ pc = "loop"
    /\ ~loop_condition(TheSession)
    /\ session' = Some(record_culprit(TheSession))
    /\ pc' = "done"
    /\ result' = "Ok"
    /\ UNCHANGED <<license_file, invocations, traces_before, compare, offer, good_snapshot, bad_snapshot, packages1,
                   packages2, diff,
                   transcript>>

\* run_automated: prints and bails
run_automated(s) ==
    [session |-> s, pc |-> "automated_returned",
     result |-> "AutomatedRequiresPremium"]

RunAutomated ==
    /\ pc = "constructed"
    /\ LET out == run_automated(TheSession)
       IN  /\ session' = Some(out.session)
           /\ pc' = out.pc
           /\ result' = out.result
    /\ UNCHANGED <<license_file, invocations, traces_before, compare, offer, good_snapshot, bad_snapshot, packages1,
                   packages2, diff,
                   transcript>>

\* a step of run_manual
SessionStep ==
    \/ Ask
    \/ \E issue_occurs \in BOOLEAN : Answer(issue_occurs)
    \/ OracleFail
    \/ Finish

\* run_manual as a function of the answers the oracle gives: the session it
\* leaves (still in the loop when the answers run out first)
RECURSIVE manual_run(_, _)
manual_run(s, answers) ==
    IF loop_condition(s)
    THEN IF answers = <<>> THEN s
         ELSE manual_run(answer_step(set_mid(s), Head(answers)), Tail(answers))
    ELSE record_culprit(s)

-----------------------------------------------------------------------------
(* Inputs of the session's specification: a good and a bad state that      *)
(* differ by up to MaxPerKind packages of each change kind                 *)

NamesOf(kind, n) == {kind \o ToString(i) : i \in 1..n}

Scenarios == [a : 0..MaxPerKind, r : 0..MaxPerKind,
              u : 0..MaxPerKind, d : 0..MaxPerKind]

GoodState(c) ==
    [n \in NamesOf("rem", c.r) \cup NamesOf("up", c.u)
           \cup NamesOf("down", c.d) \cup {"same"} |->
        IF n \in NamesOf("down", c.d) THEN V_1_1 ELSE V_1_0]

BadState(c) ==
    [n \in NamesOf("add", c.a) \cup NamesOf("up", c.u)
           \cup NamesOf("down", c.d) \cup {"same"} |->
        IF n \in NamesOf("up", c.u) THEN V_1_1 ELSE V_1_0]

OneOfEach == [a |-> 1, r |-> 1, u |-> 1, d |-> 1]

\* what may be found installed when a snapshot carries no package map
SessionLiveLists == {GoodState(OneOfEach), BadState(OneOfEach)}

Init ==
    /\ pc = "start"
    /\ \/ \E c \in Scenarios :
            /\ good_snapshot = Snapshot("good", Some(GoodState(c)))
            /\ bad_snapshot = Snapshot("bad", Some(BadState(c)))
       \/ /\ good_snapshot = Snapshot("good", None)
          /\ bad_snapshot = Snapshot("bad", None)
    /\ packages1 = None
    /\ packages2 = None
    /\ diff = None
    /\ session = None
    /\ transcript = <<>>
    /\ result = "none"
    /\ compare = None
    /\ offer = None
    /\ NoCommand

Next ==
    \/ New(SessionLiveLists)
    \/ RunManual
    \/ Ask
    \/ \E issue_occurs \in BOOLEAN : Answer(issue_occurs)
    \/ OracleFail
    \/ Finish
    \/ RunAutomated

Spec == Init /\ [][Next]_vars

-----------------------------------------------------------------------------
(* The differ's specification: compute_diff on every pair of state maps    *)
(* over Names, embedded in the snapshots or found installed, and on the    *)
(* session's pairs of a good and a bad state                               *)

DiffSnapshots(id) ==
    {Snapshot(id, p) : p \in {None} \cup {Some(m) : m \in StateMaps}}

\* ids a snapshot without a package map may carry
SnapshotIds == {"good", "bad"}

DiffInit ==
    /\ pc = "start"
    /\ \/ /\ good_snapshot \in DiffSnapshots("good")
          /\ bad_snapshot \in DiffSnapshots("bad")
       \/ \E id1 \in SnapshotIds, id2 \in SnapshotIds :
            /\ good_snapshot = Snapshot(id1, None)
            /\ bad_snapshot = Snapshot(id2, None)
       \/ \E c \in Scenarios :
            /\ good_snapshot = Snapshot("good", Some(GoodState(c)))
            /\ bad_snapshot = Snapshot("bad", Some(BadState(c)))
    /\ packages1 = None
    /\ packages2 = None
    /\ diff = None
    /\ session = None
    /\ transcript = <<>>
    /\ result = "none"
    /\ compare = None
    /\ offer = None
    /\ NoCommand

DiffNext == New(StateMaps)

DiffSpec == DiffInit /\ [][DiffNext]_vars

-----------------------------------------------------------------------------
(* The comparator's specification: version_compare on every pair of the    *)
(* version strings below                                                   *)

CompareVersions ==
    { V_1_0, V_1_1, V_1_0_rc1,
      <<>>,                                             \* ""
      <<"r", "c", "1">>,                                \* "rc1"
      <<"1">>,                                          \* "1"
      <<"0", "1">>,                                     \* "01"
      <<"1", ".", "2">>,                                \* "1.2"
      <<"1", ".", "2", ".", "0">>,                      \* "1.2.0"
      <<"1", ".", "9">>,                                \* "1.9"
      <<"2", ".", "0">>,                                \* "2.0"
      <<"1", "_", "1", "0">>,                           \* "1_10"
      <<"1", ".", ".", "2">>,                           \* "1..2"
      <<"r", "c", ".", "2">>,                           \* "rc.2"
      <<"4", "2", "9", "4", "9", "6", "7", "2", "9", "5">>,   \* 2^32 - 1
      <<"4", "2", "9", "4", "9", "6", "7", "2", "9", "6">> }  \* 2^32

Idle ==
    /\ pc = "start"
    /\ good_snapshot = Snapshot("good", None)
    /\ bad_snapshot = Snapshot("bad", None)
    /\ packages1 = None
    /\ packages2 = None
    /\ diff = None
    /\ session = None
    /\ transcript = <<>>
    /\ result = "none"

VersionInit ==
    /\ Idle
    /\ \E candidate \in CompareVersions, baseline \in CompareVersions :
          compare = Some([candidate |-> candidate, baseline |-> baseline,
                          is_upgrade |-> None])
    /\ offer = None
    /\ NoCommand

\* a call version_compare(candidate, baseline), as compute_diff makes it
Compare ==
    /\ compare # None
    /\ compare[1].is_upgrade = None
    /\ compare' = Some([compare[1] EXCEPT !.is_upgrade =
                          Some(version_compare(compare[1].candidate,
                                               compare[1].baseline))])
    /\ UNCHANGED <<license_file, invocations, traces_before, pc, good_snapshot, bad_snapshot, packages1, packages2, diff,
                   session, transcript, result, offer>>

VersionNext == Compare

VersionSpec == VersionInit /\ [][VersionNext]_vars

-----------------------------------------------------------------------------
(* The remediation planner: PackageFixer::offer_fix on a culprit           *)

\* FixAction values
Downgrade(name, version) == [kind |-> "Downgrade", pkg |-> name, ver |-> version]
Remove(name) == [kind |-> "Remove", pkg |-> name]
Pin(name, version) == [kind |-> "Pin", pkg |-> name, ver |-> version]
ReportBug(name) == [kind |-> "ReportBug", pkg |-> name]
DoNothing == [kind |-> "DoNothing"]

\* mutant: an upgraded package pinned at its new version
get_fix_options_pin_new(culprit) ==
    LET options ==
          CASE culprit.kind = "Added" ->
                 <<Remove(culprit.pkg.name), ReportBug(culprit.pkg.name)>>
            [] culprit.kind = "Removed" ->
                 <<ReportBug(culprit.pkg.name)>>
            [] culprit.kind = "Upgraded" ->
                 <<Downgrade(culprit.pkg.name, culprit.old_ver),
                   Pin(culprit.pkg.name, culprit.new_ver),
                   Remove(culprit.pkg.name),
                   ReportBug(culprit.pkg.name)>>
            [] culprit.kind = "Downgraded" ->
                 <<Pin(culprit.pkg.name, culprit.new_ver),
                   ReportBug(culprit.pkg.name)>>
    IN  Append(options, DoNothing)

get_fix_options(culprit) ==
    LET options ==
          CASE culprit.kind = "Added" ->
                 <<Remove(culprit.pkg.name), ReportBug(culprit.pkg.name)>>
            [] culprit.kind = "Removed" ->
                 <<ReportBug(culprit.pkg.name)>>
            [] culprit.kind = "Upgraded" ->
                 <<Downgrade(culprit.pkg.name, culprit.old_ver),
                   Pin(culprit.pkg.name, culprit.old_ver),
                   Remove(culprit.pkg.name),
                   ReportBug(culprit.pkg.name)>>
            [] culprit.kind = "Downgraded" ->
                 <<Pin(culprit.pkg.name, culprit.new_ver),
                   ReportBug(culprit.pkg.name)>>
    IN  Append(options, DoNothing)

\* the culprits a session can record: every change of every diff of two
\* state maps
FixCulprits ==
    UNION { {c[i] : i \in 1..Len(c)} :
              c \in { all_changes(d) :
                        d \in UNION { compute_diff(p1, p2) :
                                        p1 \in StateMaps, p2 \in StateMaps } } }

FixInit ==
    /\ Idle
    /\ compare = None
    /\ NoCommand
    /\ \E culprit \in FixCulprits :
          offer = Some([culprit |-> culprit, options |-> None,
                        selection |-> None, err |-> FALSE,
                        confirm |-> "none", commands |-> <<>>,
                        returned |-> "none"])

\* offer_fix up to the prompt: the options are built
OfferFix ==
    /\ offer # None
    /\ offer[1].options = None
    /\ offer' = Some([offer[1] EXCEPT
                        !.options = Some(get_fix_options(offer[1].culprit))])
    /\ UNCHANGED <<license_file, invocations, traces_before, pc, good_snapshot, bad_snapshot, packages1, packages2, diff,
                   session, transcript, result, compare>>

\* the Select prompt returns Ok(selection), a 0-based index into options
Select ==
    /\ offer # None
    /\ offer[1].options # None
    /\ offer[1].selection = None
    /\ ~offer[1].err
    /\ \E selection \in 0..(Len(offer[1].options[1]) - 1) :
          offer' = Some([offer[1] EXCEPT !.selection = Some(selection)])
    /\ UNCHANGED <<license_file, invocations, traces_before, pc, good_snapshot, bad_snapshot, packages1, packages2, diff,
                   session, transcript, result, compare>>

\* the Select prompt returns Err: `?` returns it from offer_fix
SelectFail ==
    /\ offer # None
    /\ offer[1].options # None
    /\ offer[1].selection = None
    /\ ~offer[1].err
    /\ offer' = Some([offer[1] EXCEPT !.err = TRUE])
    /\ UNCHANGED <<license_file, invocations, traces_before, pc, good_snapshot, bad_snapshot, packages1, packages2, diff,
                   session, transcript, result, compare>>

\* what detect_distro returns: the ID of os-release, "unknown" without one,
\* or the error of reading the file
DistroResults ==
    {Some(id) : id \in {"arch", "manjaro", "ubuntu", "debian", "fedora",
                         "rhel", "unknown"}} \cup {None}

\* Command::status(): the command ran and succeeded, ran and failed, or
\* could not be started
StatusResults == {"success", "failure", "error"}

\* the answer to the 'Really remove' prompt, or the prompt's error
ConfirmResults == {"yes", "no", "error"}

ShellCommand(program, package) == [program |-> program, pkg |-> package]

\* what a call leaves: the commands it ran, the answer to the confirmation
\* it asked for ("none" when it asked for none) and what it returned
Outcome(commands, confirm, returned) ==
    [commands |-> commands, confirm |-> confirm, returned |-> returned]

\* `Command::new("sh").arg("-c").arg(&cmd).status()?` and Ok(()) after it
run_command(program, package, status) ==
    IF status = "error" THEN Outcome(<<>>, "none", "Err")
    ELSE Outcome(<<ShellCommand(program, package)>>, "none", "Ok")

downgrade_package(package, distro, status) ==
    IF distro = None THEN Outcome(<<>>, "none", "Err")
    ELSE IF distro[1] \in {"arch", "manjaro"}
         THEN run_command("pacman -U", package, status)
    ELSE IF distro[1] \in {"ubuntu", "debian"}
         THEN run_command("apt-get install", package, status)
    ELSE IF distro[1] \in {"fedora", "rhel"}
         THEN run_command("dnf downgrade", package, status)
    ELSE Outcome(<<>>, "none", "Ok")

\* what remove_package does once the prompt has been answered with yes
remove_confirmed(package, distro, status) ==
    IF distro = None THEN Outcome(<<>>, "none", "Err")
    ELSE IF distro[1] \in {"arch", "manjaro"}
         THEN run_command("pacman -R", package, status)
    ELSE IF distro[1] \in {"ubuntu", "debian"}
         THEN run_command("apt-get remove", package, status)
    ELSE IF distro[1] \in {"fedora", "rhel"}
         THEN run_command("dnf remove", package, status)
    ELSE Outcome(<<>>, "none", "Ok")

\* mutant: the answer to the prompt is not looked at
remove_package_unconfirmed(package, distro, confirm, status) ==
    IF confirm = "error" THEN Outcome(<<>>, confirm, "Err")
    ELSE [remove_confirmed(package, distro, status) EXCEPT !.confirm = confirm]

remove_package(package, distro, confirm, status) ==
    IF confirm = "error" THEN Outcome(<<>>, confirm, "Err")
    ELSE IF confirm = "no" THEN Outcome(<<>>, confirm, "Ok")
    ELSE [remove_confirmed(package, distro, status) EXCEPT !.confirm = confirm]

pin_package(package, distro, status) ==
    IF distro = None THEN Outcome(<<>>, "none", "Err")
    ELSE IF distro[1] \in {"ubuntu", "debian"}
         THEN run_command("apt-mark hold", package, status)
    ELSE Outcome(<<>>, "none", "Ok")

\* the browser is started and its result dropped
report_bug(package, distro, status) ==
    IF distro = None THEN Outcome(<<>>, "none", "Err")
    ELSE IF status = "error" THEN Outcome(<<>>, "none", "Ok")
    ELSE Outcome(<<ShellCommand("xdg-open", package)>>, "none", "Ok")

execute_fix(action, distro, confirm, status) ==
    CASE action.kind = "Downgrade" ->
           downgrade_package(action.pkg, distro, status)
      [] action.kind = "Remove" ->
           remove_package(action.pkg, distro, confirm, status)
      [] action.kind = "Pin" -> pin_package(action.pkg, distro, status)
      [] action.kind = "ReportBug" -> report_bug(action.pkg, distro, status)
      [] action.kind = "DoNothing" -> Outcome(<<>>, "none", "Ok")

\* the option the user selected
Chosen == offer[1].options[1][offer[1].selection[1] + 1]

\* offer_fix after the prompt: execute_fix on the selected option
ExecuteFix ==
    /\ offer # None
    /\ offer[1].selection # None
    /\ offer[1].returned = "none"
    /\ \E distro \in DistroResults, confirm \in ConfirmResults,
          status \in StatusResults :
          LET out == execute_fix(Chosen, distro, confirm, status)
          IN  offer' = Some([offer[1] EXCEPT !.commands = out.commands,
                                             !.confirm = out.confirm,
                                             !.returned = out.returned])
    /\ UNCHANGED <<license_file, invocations, traces_before, pc, good_snapshot,
                   bad_snapshot, packages1, packages2, diff, session,
                   transcript, result, compare>>

FixNext ==
    \/ OfferFix
    \/ Select
    \/ SelectFail
    \/ ExecuteFix

FixSpec == FixInit /\ [][FixNext]_vars

-----------------------------------------------------------------------------
(* The bisect command: license check, snapshots, session, run and usage    *)
(* count, for one or several invocations sharing the license file          *)

FREE_TRACE_LIMIT == 3

LicenseTypes == {"Trial", "Standalone", "Premium"}

TraceLicense(license_type, traces_used) ==
    [license_type |-> license_type, traces_used |-> traces_used]

\* impl Default for TraceLicense
TraceLicense_default == TraceLicense("Trial", 0)

\* mutant: the limit itself still allowed
can_trace_inclusive(license) ==
    IF license.license_type = "Trial"
    THEN license.traces_used <= FREE_TRACE_LIMIT
    ELSE TRUE

can_trace(license) ==
    IF license.license_type = "Trial"
    THEN license.traces_used < FREE_TRACE_LIMIT
    ELSE TRUE

increment_usage(license) == [license EXCEPT !.traces_used = @ + 1]

\* get_license on the file `file`: the license returned and the file left
\* (a missing file is created with the default license)
get_license(file) ==
    IF file = None
    THEN [license |-> TraceLicense_default, file |-> Some(TraceLicense_default)]
    ELSE [license |-> file[1], file |-> file]

is_premium(file) ==
    LET got == get_license(file)
    IN  [value |-> got.license.license_type \in {"Standalone", "Premium"},
         file |-> got.file]

\* mutant: the automated run chosen on the flag alone
use_automated_unlicensed(auto, premium) == auto

\* `if auto && premium::is_premium()?`
use_automated(auto, premium) == auto /\ premium

\* mutant: usage counted whatever the run returned
counts_as_trace_always(run_result) == TRUE

\* `if result.is_ok()`
counts_as_trace(run_result) == run_result = "Ok"

\* what run_manual can return on session s, with the number of questions it
\* put to the oracle: Ok after the answers `a` were all used, or the oracle's
\* failure at the question after them
ManualOutcomes(s) ==
    LET answers == UNION {[1..m -> BOOLEAN] : m \in 0..Len(s.package_changes)}
    IN  { [result |-> "Ok", questions |-> Len(a)] :
            a \in { b \in answers :
                      /\ ~loop_condition(manual_run(s, b))
                      /\ b # <<>> =>
                           loop_condition(manual_run(s, SubSeq(b, 1, Len(b) - 1))) } }
        \cup
        { [result |-> "OracleFailure", questions |-> Len(a) + 1] :
            a \in { b \in answers : loop_condition(manual_run(s, b)) } }

\* the locals of one invocation of bisect_command
NewInvocation(auto) ==
    [pc |-> "start", auto |-> auto, session |-> None, usage |-> None,
     ran |-> "none", result |-> "none", returned |-> "none",
     snapshots_read |-> FALSE, session_created |-> FALSE, questions |-> 0]

sessionVars == <<pc, good_snapshot, bad_snapshot, packages1, packages2, diff,
                 session, transcript, result, compare, offer>>

\* premium::get_license() and the can_trace check
CheckLicense(p) ==
    /\ invocations[p].pc = "start"
    /\ LET got == get_license(license_file)
       IN  /\ license_file' = got.file
           /\ invocations' =
                [invocations EXCEPT ![p] =
                   IF can_trace(got.license)
                   THEN [@ EXCEPT !.pc = "licensed"]
                   ELSE [@ EXCEPT !.pc = "returned",
                                  !.returned = "TrialLimitReached"]]
    /\ UNCHANGED <<sessionVars, traces_before>>

\* the note on the auto flag, SnapshotManager::new and the two snapshot
\* lookups, which succeed or return an error
Snapshots(p) ==
    /\ invocations[p].pc = "licensed"
    /\ license_file' =
         IF invocations[p].auto THEN is_premium(license_file).file
         ELSE license_file
    /\ \E found \in BOOLEAN :
          invocations' =
            [invocations EXCEPT ![p] =
               IF found
               THEN [@ EXCEPT !.pc = "snapshots", !.snapshots_read = TRUE]
               ELSE [@ EXCEPT !.pc = "returned",
                              !.returned = "SnapshotFailure"]]
    /\ UNCHANGED <<sessionVars, traces_before>>

\* BisectSession::new on the two snapshots (a SnapshotManager snapshot has
\* no package map)
NewSession(p) ==
    /\ invocations[p].pc = "snapshots"
    /\ \E p1 \in get_packages_for_snapshot(Snapshot("good", None),
                                           SessionLiveLists),
          p2 \in get_packages_for_snapshot(Snapshot("bad", None),
                                           SessionLiveLists) :
         \E d \in compute_diff(p1, p2) :
            LET made == BisectSession_new(all_changes(d))
            IN  invocations' =
                  [invocations EXCEPT ![p] =
                     IF made.ok
                     THEN [@ EXCEPT !.pc = "constructed",
                                    !.session = Some(made.session),
                                    !.session_created = TRUE]
                     ELSE [@ EXCEPT !.pc = "returned",
                                    !.returned = made.err]]
    /\ UNCHANGED <<sessionVars, license_file, traces_before>>

\* the run chosen and made, and the test of its result
Run(p) ==
    /\ invocations[p].pc = "constructed"
    /\ LET inv == invocations[p]
           premium == is_premium(license_file)
           Returns(ran, outcome) ==
               IF counts_as_trace(outcome.result)
               THEN [inv EXCEPT !.pc = "usage", !.ran = ran,
                                !.result = outcome.result,
                                !.questions = outcome.questions,
                                !.session = None]
               ELSE [inv EXCEPT !.pc = "returned", !.ran = ran,
                                !.result = outcome.result,
                                !.returned = outcome.result,
                                !.questions = outcome.questions,
                                !.session = None]
       IN  /\ license_file' =
                IF inv.auto THEN premium.file ELSE license_file
           /\ IF use_automated(inv.auto, premium.value)
              THEN invocations' =
                     [invocations EXCEPT ![p] =
                        Returns("automated",
                                [result |-> run_automated(inv.session[1]).result,
                                 questions |-> 0])]
              ELSE \E outcome \in ManualOutcomes(inv.session[1]) :
                     invocations' =
                       [invocations EXCEPT ![p] = Returns("manual", outcome)]
    /\ UNCHANGED <<sessionVars, traces_before>>

\* increment_trace_usage: get_license
IncrementRead(p) ==
    /\ invocations[p].pc = "usage"
    /\ LET got == get_license(license_file)
       IN  /\ license_file' = got.file
           /\ invocations' =
                [invocations EXCEPT ![p] =
                   [@ EXCEPT !.pc = "incrementing",
                             !.usage = Some(got.license)]]
    /\ UNCHANGED <<sessionVars, traces_before>>

\* increment_trace_usage: increment_usage and save_license; the command
\* returns the run's result
IncrementWrite(p) ==
    /\ invocations[p].pc = "incrementing"
    /\ license_file' = Some(increment_usage(invocations[p].usage[1]))
    /\ invocations' =
         [invocations EXCEPT ![p] =
            [@ EXCEPT !.pc = "returned", !.usage = None,
                      !.returned = invocations[p].result]]
    /\ UNCHANGED <<sessionVars, traces_before>>

BisectNext ==
    \/ \E p \in DOMAIN invocations : CheckLicense(p)
    \/ \E p \in DOMAIN invocations : Snapshots(p)
    \/ \E p \in DOMAIN invocations : NewSession(p)
    \/ \E p \in DOMAIN invocations : Run(p)
    \/ \E p \in DOMAIN invocations : IncrementRead(p)
    \/ \E p \in DOMAIN invocations : IncrementWrite(p)

\* the largest traces_used a license file starts with
MaxTracesUsed == 4

\* the invocations that overlap
MaxInvocations == 2

StoredTraces(file) == IF file = None THEN 0 ELSE file[1].traces_used

LicenseFiles(types) ==
    {None} \cup {Some(TraceLicense(ty, n)) : ty \in types, n \in 0..MaxTracesUsed}

\* one invocation, under any license
BisectInit ==
    /\ Idle
    /\ compare = None
    /\ offer = None
    /\ license_file \in LicenseFiles(LicenseTypes)
    /\ traces_before = StoredTraces(license_file)
    /\ \E auto \in BOOLEAN : invocations = <<NewInvocation(auto)>>

BisectSpec == BisectInit /\ [][BisectNext]_vars

\* several invocations under one Trial license file
ConcurrentInit ==
    /\ Idle
    /\ compare = None
    /\ offer = None
    /\ license_file \in LicenseFiles({"Trial"})
    /\ traces_before = StoredTraces(license_file)
    /\ invocations \in [1..MaxInvocations -> {NewInvocation(auto) : auto \in BOOLEAN}]

ConcurrentSpec == ConcurrentInit /\ [][BisectNext]_vars

-----------------------------------------------------------------------------
(* Properties of the bisection session                                     *)

\* ceil(log2 n) for n >= 1: the least s with 2^s >= n
CeilLog2(n) == CHOOSE s \in 0..n : 2^s >= n /\ \A t \in 0..(s - 1) : 2^t < n

Changes == TheSession.package_changes
N == Len(Changes)
Low == TheSession.current_low
High == TheSession.current_high

\* every oracle call so far answered as a monotonic oracle with true culprit
\* index k (0-based) does: reproduces(mid) = (k < mid)
Monotonic(k) ==
    \A i \in 1..Len(transcript) :
        /\ transcript[i].ok
        /\ transcript[i].issue_occurs = (k < transcript[i].mid)

\* C1: for every change list of length N >= 1 and every true culprit index k
\* in [0, N), run_manual with the monotonic oracle reproduces(mid) = (k < mid)
\* ends with changes[k] recorded as the culprit, after at most ceil(log2 N)
\* oracle answers.
C1_MonotonicOracleFindsCulprit ==
    (session # None /\ pc = "done") =>
        \A k \in 0..(N - 1) :
            Monotonic(k) =>
                /\ TheSession.found_culprit = Some(Changes[k + 1])
                /\ Len(transcript) <= CeilLog2(N)

\* a run over 8 changes that took 3 answers to find the culprit at index 5
C1_Witness ==
    /\ session # None
    /\ pc = "done"
    /\ N = 8
    /\ Len(transcript) = 3
    /\ Monotonic(5)
    /\ TheSession.found_culprit = Some(Changes[6])

\* C2: for every change list of length N >= 1 and every sequence of oracle
\* answers, the loop ends after at most ceil(log2 N) answers, with
\* high - low = 1 and the recorded culprit equal to changes[low] for a low in
\* [0, N).
C2_AnyOracleTerminates ==
    session # None =>
        /\ Len(transcript) <= CeilLog2(N)
        /\ (Len(transcript) = CeilLog2(N) /\ pc \in {"loop", "done"}) =>
                ~loop_condition(TheSession)
        /\ pc = "done" =>
                /\ High - Low = 1
                /\ Low \in 0..(N - 1)
                /\ TheSession.found_culprit = Some(Changes[Low + 1])

\* a run over 5 changes that ended after 3 answers, not all the same
C2_Witness ==
    /\ session # None
    /\ pc = "done"
    /\ N = 5
    /\ Len(transcript) = 3
    /\ \E i, j \in 1..Len(transcript) :
          transcript[i].issue_occurs /\ ~transcript[j].issue_occurs

\* C3: in every state of a constructed session, after new and after every
\* oracle answer, 0 <= current_low < current_high <= len(package_changes).
C3_CursorInvariant ==
    session # None => (0 <= Low /\ Low < High /\ High <= N)

\* a session whose two bounds have both moved
C3_Witness ==
    /\ session # None
    /\ Len(transcript) >= 2
    /\ Low > 0
    /\ High < N

\* an oracle answer has just been processed in this step
Answered ==
    /\ pc = "asking"
    /\ pc' = "loop"
    /\ Len(transcript') = Len(transcript) + 1
    /\ transcript'[Len(transcript')].ok

\* C4: every oracle answer processed strictly decreases high - low, whichever
\* boolean it is, and no oracle question is asked once high - low = 1.
C4_WidthStrictlyDecreases ==
    [][ /\ Answered => (High' - Low' < High - Low)
        /\ pc' = "asking" => (High' - Low' > 1) ]_vars

\* a finished run in which both answers were given
C4_Witness ==
    /\ session # None
    /\ pc = "done"
    /\ High - Low = 1
    /\ \E i, j \in 1..Len(transcript) :
          /\ transcript[i].ok /\ transcript[i].issue_occurs
          /\ transcript[j].ok /\ ~transcript[j].issue_occurs

\* C5: one step computes mid = (low + high) / 2 by integer division and then
\* changes exactly one bound: high := mid on 'reproduces', low := mid
\* otherwise; the other bound and the change sequence are unchanged.
C5_StepFrame ==
    [][ /\ (pc = "loop" /\ pc' = "asking") =>
              /\ TheSession'.current_mid = (Low + High) \div 2
              /\ Low' = Low /\ High' = High /\ Changes' = Changes
        /\ Answered =>
              LET mid == (Low + High) \div 2
                  reproduces == transcript'[Len(transcript')].issue_occurs
              IN  /\ TheSession.current_mid = mid
                  /\ transcript'[Len(transcript')].mid = mid
                  /\ Changes' = Changes
                  /\ IF reproduces
                     THEN High' = mid /\ High' # High /\ Low' = Low
                     ELSE Low' = mid /\ Low' # Low /\ High' = High ]_vars

\* both kinds of step were taken: high moved to 4, then low moved to 2
C5_Witness ==
    /\ session # None
    /\ Len(transcript) = 2
    /\ transcript[1].issue_occurs /\ transcript[1].mid = 4
    /\ ~transcript[2].issue_occurs /\ transcript[2].mid = 2
    /\ Low = 2 /\ High = 4

\* C6: constructing a session from two states whose diff has zero changes
\* fails at once with the empty-change-set error: no session exists, no oracle
\* question is ever asked and the loop is never entered.
C6_EmptyChangeSetFails ==
    (diff # None /\ total_changes(diff[1]) = 0) =>
        /\ pc = "failed"
        /\ result = "NoPackageChanges"
        /\ session = None
        /\ transcript = <<>>

\* two embedded, identical, non-empty states were compared
C6_Witness ==
    /\ diff # None
    /\ total_changes(diff[1]) = 0
    /\ good_snapshot.packages # None
    /\ packages1 = packages2
    /\ DOMAIN packages1[1] # {}
    /\ pc = "failed"

\* C7: if an oracle call errors during the loop, the run ends at once with an
\* error: the oracle is not asked again, no further step is taken and no
\* culprit is recorded.
C7_OracleFailureIsFatal ==
    \A i \in 1..Len(transcript) :
        ~transcript[i].ok =>
            /\ i = Len(transcript)
            /\ pc = "failed"
            /\ result = "OracleFailure"
            /\ TheSession.found_culprit = None
            /\ ~ENABLED SessionStep

\* the oracle failed at the third question
C7_Witness ==
    /\ Len(transcript) = 3
    /\ transcript[1].ok /\ transcript[2].ok /\ ~transcript[3].ok
    /\ pc = "failed"

\* sequences of at most n oracle answers
AnswerSeqs(n) == UNION {[1..m -> BOOLEAN] : m \in 0..n}

\* C8: the interactive and the automated oracle strategy are interchangeable:
\* for the same change list and the same boolean answers, an automated run
\* goes through the same (low, high) states and ends with the same culprit as
\* an interactive run. Stated of a returned automated run: it returned Ok and
\* left the session as run_manual leaves it for some sequence of answers.
C8_AutomatedMatchesManual ==
    pc = "automated_returned" =>
        /\ result = "Ok"
        /\ \E answers \in AnswerSeqs(CeilLog2(N)) :
              LET made == BisectSession_new(Changes)
                  manual == manual_run(made.session, answers)
              IN  /\ ~loop_condition(manual)
                  /\ TheSession = manual

-----------------------------------------------------------------------------
(* Properties of the package differ                                        *)

PackageNames(packages) == {packages[i].name : i \in 1..Len(packages)}
TripleNames(triples) == {triples[i].pkg.name : i \in 1..Len(triples)}

\* the names whose presence or version differs between two state maps
ChangedNames(A, B) ==
    {n \in DOMAIN A \cup DOMAIN B :
        ~(n \in DOMAIN A /\ n \in DOMAIN B /\ A[n] = B[n])}

\* C9: for all state maps A and B, the name-sets of added, removed, upgraded
\* and downgraded in compute_diff(A, B) are pairwise disjoint and their union
\* is exactly the set of names whose presence or version differs, so
\* all_changes holds exactly one PackageChange per changed name and none for
\* an unchanged name.
C9_DiffPartitionsChangedNames ==
    diff # None =>
        LET A == packages1[1]
            B == packages2[1]
            d == diff[1]
            a == PackageNames(d.added)
            r == PackageNames(d.removed)
            u == TripleNames(d.upgraded)
            w == TripleNames(d.downgraded)
            changes == all_changes(d)
        IN  /\ a \cap r = {} /\ a \cap u = {} /\ a \cap w = {}
            /\ r \cap u = {} /\ r \cap w = {} /\ u \cap w = {}
            /\ a \cup r \cup u \cup w = ChangedNames(A, B)
            /\ \A n \in ChangedNames(A, B) :
                  Cardinality({i \in 1..Len(changes) :
                                  change_name(changes[i]) = n}) = 1
            /\ \A i \in 1..Len(changes) :
                  change_name(changes[i]) \in ChangedNames(A, B)

\* a diff with all four collections filled and a name left unchanged
C9_Witness ==
    /\ diff # None
    /\ Len(diff[1].added) = 2
    /\ Len(diff[1].removed) = 1
    /\ Len(diff[1].upgraded) = 2
    /\ Len(diff[1].downgraded) = 1
    /\ \E n \in DOMAIN packages1[1] \cap DOMAIN packages2[1] :
          packages1[1][n] = packages2[1][n]

\* C10: for all state maps A and B, total_changes(compute_diff(A, B)) = 0 if
\* and only if A and B have identical key/value pairs; compute_diff(A, A) has
\* all four collections empty.
C10_ZeroChangesIffIdentical ==
    diff # None =>
        LET A == packages1[1]
            B == packages2[1]
            d == diff[1]
        IN  /\ (total_changes(d) = 0) <=> (A = B)
            /\ (A = B) => /\ d.added = <<>>
                          /\ d.removed = <<>>
                          /\ d.upgraded = <<>>
                          /\ d.downgraded = <<>>

\* a state with every name installed, compared with itself
C10_Witness ==
    /\ diff # None
    /\ good_snapshot.packages # None
    /\ bad_snapshot.packages # None
    /\ packages1 = packages2
    /\ DOMAIN packages1[1] = Names
    /\ total_changes(diff[1]) = 0

-----------------------------------------------------------------------------
(* Properties of the version comparator                                    *)

\* the numeric tokens of a version string, each by its value (its digits
\* without leading zeros): the tokens that are one or more decimal digits
RECURSIVE NumericTokens(_)
NumericTokens(toks) ==
    IF toks = <<>> THEN <<>>
    ELSE LET tok == Head(toks)
             numeric == Len(tok) > 0 /\ \A i \in 1..Len(tok) : tok[i] \in DigitChars
         IN  (IF numeric
              THEN <<StripZeros([i \in 1..Len(tok) |-> DigitVal(tok[i])])>>
              ELSE <<>>)
             \o NumericTokens(Tail(toks))

IntegerSequence(v) == NumericTokens(split(v))

\* p is greater than q: the first differing component decides; with all
\* compared components equal, the longer sequence is greater
SequenceGreater(p, q) ==
    LET m == IF Len(p) < Len(q) THEN Len(p) ELSE Len(q)
    IN  \/ \E i \in 1..m : /\ DigitsLess(q[i], p[i])
                           /\ \A j \in 1..(i - 1) : p[j] = q[j]
        \/ /\ \A i \in 1..m : p[i] = q[i]
           /\ Len(p) > Len(q)

Compared == compare # None /\ compare[1].is_upgrade # None

\* C13: is_upgrade(candidate, baseline) is true exactly when the integer
\* sequence of candidate's numeric tokens is greater than that of baseline
\* (first differing component decides, else the longer sequence is greater;
\* equal sequences give false), and it returns a boolean for every pair of
\* strings.
C13_IsUpgradeIsSequenceOrder ==
    Compared =>
        /\ compare[1].is_upgrade[1] \in BOOLEAN
        /\ compare[1].is_upgrade[1] =
              SequenceGreater(IntegerSequence(compare[1].candidate),
                              IntegerSequence(compare[1].baseline))

\* C20: every token that is a non-negative decimal integer, whatever its
\* magnitude, is kept and compared by its value, so
\* is_upgrade("4294967296", "1") is true.
C20_LargeTokenKept ==
    ( /\ Compared
      /\ compare[1].candidate =
            <<"4", "2", "9", "4", "9", "6", "7", "2", "9", "6">>
      /\ compare[1].baseline = <<"1">> )
    => compare[1].is_upgrade[1] = TRUE

-----------------------------------------------------------------------------
(* Further properties of the package differ and the change sequencer       *)

Elements(s) == {s[i] : i \in 1..Len(s)}

\* C11: for all state maps A and B, compute_diff(A, B).added is exactly the
\* names in B that are not in A, each with B's version, and .removed is
\* exactly the names in A that are not in B, each with A's version.
C11_AddedAndRemoved ==
    diff # None =>
        LET A == packages1[1]
            B == packages2[1]
            d == diff[1]
        IN  /\ Elements(d.added) =
                 {Package(n, B[n]) : n \in DOMAIN B \ DOMAIN A}
            /\ Len(d.added) = Cardinality(DOMAIN B \ DOMAIN A)
            /\ Elements(d.removed) =
                 {Package(n, A[n]) : n \in DOMAIN A \ DOMAIN B}
            /\ Len(d.removed) = Cardinality(DOMAIN A \ DOMAIN B)

\* two packages added and two removed, with names common to both states
C11_Witness ==
    /\ diff # None
    /\ Len(diff[1].added) = 2
    /\ Len(diff[1].removed) = 2
    /\ DOMAIN packages1[1] \cap DOMAIN packages2[1] # {}

\* C12: every name in both A and B with different version strings is in
\* exactly one of upgraded or downgraded, as a triple with old = A's version
\* and new = B's version; it is in upgraded exactly when
\* is_upgrade(B's version, A's version) is true, in downgraded otherwise. A
\* name with equal versions is in neither.
C12_VersionClassification ==
    diff # None =>
        LET A == packages1[1]
            B == packages2[1]
            d == diff[1]
            both == DOMAIN A \cap DOMAIN B
            Triple(n) == [pkg |-> Package(n, B[n]), old_ver |-> A[n],
                          new_ver |-> B[n]]
            Count(s, n) == Cardinality({i \in 1..Len(s) : s[i].pkg.name = n})
        IN  /\ \A n \in both :
                  IF A[n] = B[n]
                  THEN Count(d.upgraded, n) = 0 /\ Count(d.downgraded, n) = 0
                  ELSE IF version_compare(B[n], A[n])
                  THEN /\ Count(d.upgraded, n) = 1
                       /\ Count(d.downgraded, n) = 0
                       /\ Triple(n) \in Elements(d.upgraded)
                  ELSE /\ Count(d.upgraded, n) = 0
                       /\ Count(d.downgraded, n) = 1
                       /\ Triple(n) \in Elements(d.downgraded)
            /\ TripleNames(d.upgraded) \cup TripleNames(d.downgraded)
                  \subseteq both

\* one name upgraded, one changed to a version that compares equal, and one
\* kept at its version
C12_Witness ==
    /\ diff # None
    /\ Len(diff[1].upgraded) = 2
    /\ Len(diff[1].downgraded) = 2
    /\ \E n \in DOMAIN packages1[1] \cap DOMAIN packages2[1] :
          packages1[1][n] = packages2[1][n]

\* a version change between two strings of equal integer sequence
C12_EqualSequenceWitness ==
    /\ diff # None
    /\ \E i \in 1..Len(diff[1].downgraded) :
          /\ diff[1].downgraded[i].old_ver = V_1_0
          /\ diff[1].downgraded[i].new_ver = V_1_0_rc1

\* C14: all_changes(diff) is the concatenation, in this order, of Added for
\* each element of diff.added, Removed for each of diff.removed, Upgraded for
\* each of diff.upgraded and Downgraded for each of diff.downgraded, each
\* group in its collection's order; its length equals diff.total_changes().
C14_AllChangesOrder ==
    (diff # None /\ session # None) =>
        LET d == diff[1]
            changes == TheSession.package_changes
            na == Len(d.added)
            nr == Len(d.removed)
            nu == Len(d.upgraded)
        IN  /\ Len(changes) = total_changes(d)
            /\ \A i \in 1..Len(d.added) :
                  changes[i] = [kind |-> "Added", pkg |-> d.added[i]]
            /\ \A i \in 1..Len(d.removed) :
                  changes[na + i] = [kind |-> "Removed", pkg |-> d.removed[i]]
            /\ \A i \in 1..Len(d.upgraded) :
                  changes[na + nr + i] =
                     [kind |-> "Upgraded", pkg |-> d.upgraded[i].pkg,
                      old_ver |-> d.upgraded[i].old_ver,
                      new_ver |-> d.upgraded[i].new_ver]
            /\ \A i \in 1..Len(d.downgraded) :
                  changes[na + nr + nu + i] =
                     [kind |-> "Downgraded", pkg |-> d.downgraded[i].pkg,
                      old_ver |-> d.downgraded[i].old_ver,
                      new_ver |-> d.downgraded[i].new_ver]

\* a change list made of all four groups, two changes in each
C14_Witness ==
    /\ diff # None
    /\ session # None
    /\ Len(diff[1].added) = 2
    /\ Len(diff[1].removed) = 2
    /\ Len(diff[1].upgraded) = 2
    /\ Len(diff[1].downgraded) = 2
    /\ Len(TheSession.package_changes) = 8

-----------------------------------------------------------------------------
(* Properties of the remediation planner and of the bisect flow            *)

\* C15: for every PackageChange, get_fix_options gives exactly: Added ->
\* [Remove(name), ReportBug(name), DoNothing]; Removed -> [ReportBug(name),
\* DoNothing]; Upgraded(old, new) -> [Downgrade(name, old), Pin(name, old),
\* Remove(name), ReportBug(name), DoNothing]; Downgraded(old, new) ->
\* [Pin(name, new), ReportBug(name), DoNothing].
C15_FixOptionsTable ==
    (offer # None /\ offer[1].options # None) =>
        LET culprit == offer[1].culprit
            name == culprit.pkg.name
            options == offer[1].options[1]
        IN  /\ culprit.kind = "Added" =>
                  options = <<[kind |-> "Remove", pkg |-> name],
                              [kind |-> "ReportBug", pkg |-> name],
                              [kind |-> "DoNothing"]>>
            /\ culprit.kind = "Removed" =>
                  options = <<[kind |-> "ReportBug", pkg |-> name],
                              [kind |-> "DoNothing"]>>
            /\ culprit.kind = "Upgraded" =>
                  options = <<[kind |-> "Downgrade", pkg |-> name,
                               ver |-> culprit.old_ver],
                              [kind |-> "Pin", pkg |-> name,
                               ver |-> culprit.old_ver],
                              [kind |-> "Remove", pkg |-> name],
                              [kind |-> "ReportBug", pkg |-> name],
                              [kind |-> "DoNothing"]>>
            /\ culprit.kind = "Downgraded" =>
                  options = <<[kind |-> "Pin", pkg |-> name,
                               ver |-> culprit.new_ver],
                              [kind |-> "ReportBug", pkg |-> name],
                              [kind |-> "DoNothing"]>>

\* options built for an upgraded culprit
C15_Witness ==
    /\ offer # None
    /\ offer[1].options # None
    /\ offer[1].culprit.kind = "Upgraded"
    /\ Len(offer[1].options[1]) = 5

\* options built for culprits of the other three kinds
C15_AddedWitness ==
    offer # None /\ offer[1].options # None /\ offer[1].culprit.kind = "Added"

C15_RemovedWitness ==
    offer # None /\ offer[1].options # None /\ offer[1].culprit.kind = "Removed"

C15_DowngradedWitness ==
    /\ offer # None
    /\ offer[1].options # None
    /\ offer[1].culprit.kind = "Downgraded"

\* C16: in the bisect flow, whenever the bisection engine finds a culprit,
\* that culprit is handed to the remediation planner, which produces its
\* ordered fix actions before the bisect command ends.
C16_CulpritReachesPlanner ==
    (pc = "done" /\ TheSession.found_culprit # None) =>
        /\ offer # None
        /\ offer[1].culprit = TheSession.found_culprit[1]
        /\ offer[1].options = Some(get_fix_options(TheSession.found_culprit[1]))

\* C17: no step of run_manual (oracle answer, oracle failure, culprit
\* recording) adds, removes, reorders or alters an element of the session's
\* package_changes.
C17_ChangeSequenceFixed ==
    [][(session # None /\ session' # None) => Changes' = Changes]_vars

\* a run that answered twice and recorded a culprit, and one that answered
\* and then failed
C17_Witness ==
    /\ pc = "done"
    /\ TheSession.found_culprit # None
    /\ Len(transcript) >= 2
    /\ \E i \in 1..Len(transcript) : transcript[i].issue_occurs

C17_FailedWitness ==
    pc = "failed" /\ Len(transcript) >= 2 /\ transcript[1].issue_occurs

C19_FailureKeepsBounds ==
    [][( \/ (pc = "loop" /\ pc' = "asking")
         \/ (pc = "asking" /\ pc' = "failed") )
       => (Low' = Low /\ High' = High)]_vars

\* an oracle failure after the interval was narrowed from both ends
C19_Witness ==
    /\ pc = "failed"
    /\ Len(transcript) >= 3
    /\ 0 < Low
    /\ High < N

-----------------------------------------------------------------------------
(* Further properties of the bisection loop                                *)

\* C22: under a monotonic oracle with true culprit index k, low <= k < high
\* holds in the initial state of the session and after every oracle answer.
C22_CulpritStaysInInterval ==
    session # None =>
        \A k \in 0..(N - 1) : Monotonic(k) => (Low <= k /\ k < High)

\* three answers of the monotonic oracle for culprit 5 of 8, the interval
\* narrowed to [5, 6)
C22_Witness ==
    /\ session # None
    /\ N = 8
    /\ Len(transcript) = 3
    /\ Monotonic(5)
    /\ Low = 5
    /\ High = 6
    /\ pc = "loop"

\* C23: when the change list has exactly one element, run_manual asks the
\* oracle zero questions and records changes[0] as the culprit.
C23_SingleChangeNeedsNoQuestion ==
    (session # None /\ N = 1) =>
        /\ pc # "asking"
        /\ transcript = <<>>
        /\ pc \in {"done", "failed"} =>
              (pc = "done" /\ TheSession.found_culprit = Some(Changes[1]))

\* run_manual has returned on a list of one change
C23_Witness ==
    /\ session # None
    /\ N = 1
    /\ pc = "done"
    /\ result = "Ok"
    /\ TheSession.found_culprit # None

\* C24: every prefix length mid put to the oracle satisfies low < mid < high
\* at the time of asking, hence 1 <= mid <= N - 1.
C24_MidStrictlyInside ==
    pc = "asking" =>
        /\ Low < TheSession.current_mid
        /\ TheSession.current_mid < High
        /\ 1 <= TheSession.current_mid
        /\ TheSession.current_mid <= N - 1
        /\ Len(test_packages(TheSession)) = TheSession.current_mid

\* the oracle is asked about the narrowest interval the loop enters
C24_Witness ==
    /\ pc = "asking"
    /\ Len(transcript) >= 2
    /\ High - Low = 2
    /\ TheSession.current_mid = Low + 1

-----------------------------------------------------------------------------
(* Further properties of the differ                                        *)

\* C25: when both snapshots carry no embedded package map and the installed
\* list does not change between the two lookups, both resolve to the same
\* list, the diff is empty whatever the two snapshot ids are, and session
\* construction fails with the no-changes error.
C25_UnembeddedSnapshotsNeverDiffer ==
    ( /\ good_snapshot.packages = None
      /\ bad_snapshot.packages = None
      /\ packages1 # None
      /\ packages1 = packages2 )
    => /\ diff # None
       /\ total_changes(diff[1]) = 0
       /\ session = None
       /\ pc = "failed"
       /\ result = "NoPackageChanges"

\* two snapshots of different ids, both resolved to the same installed list
\* of two packages
C25_Witness ==
    /\ good_snapshot.packages = None
    /\ bad_snapshot.packages = None
    /\ good_snapshot.id # bad_snapshot.id
    /\ packages1 # None
    /\ packages1 = packages2
    /\ Cardinality(DOMAIN packages1[1]) = 2
    /\ result = "NoPackageChanges"

C25_SameIdWitness ==
    /\ good_snapshot.packages = None
    /\ good_snapshot = bad_snapshot
    /\ packages1 # None
    /\ packages1 = packages2
    /\ pc = "failed"

\* the names of a set in one order
RECURSIVE SomeOrder(_)
SomeOrder(S) ==
    IF S = {} THEN <<>>
    ELSE LET x == CHOOSE y \in S : TRUE IN <<x>> \o SomeOrder(S \ {x})

\* the version classification of compute_diff(B, A); the sets of names in it
\* are the same for every order of iteration, so one order is taken
Reversed ==
    version_changes(packages2[1], packages1[1],
                    SomeOrder(DOMAIN packages1[1] \cap DOMAIN packages2[1]),
                    [upgraded |-> <<>>, downgraded |-> <<>>])

\* C26 as stated: for all state maps A and B, the names in
\* compute_diff(A, B).upgraded are those in compute_diff(B, A).downgraded, and
\* the names in compute_diff(A, B).downgraded those in
\* compute_diff(B, A).upgraded.
C26_ReversalReversesClassification ==
    diff # None =>
        /\ TripleNames(diff[1].upgraded) = TripleNames(Reversed.downgraded)
        /\ TripleNames(diff[1].downgraded) = TripleNames(Reversed.upgraded)

\* C26 amended: every name upgraded from A to B is downgraded from B to A and
\* every name upgraded from B to A is downgraded from A to B; the names
\* downgraded in both directions are exactly the common names with different
\* version strings of which neither is an upgrade of the other; both
\* directions classify the same set of names.
C26_ReversalUpToTies ==
    diff # None =>
        LET A == packages1[1]
            B == packages2[1]
        IN  /\ TripleNames(diff[1].upgraded)
                  \subseteq TripleNames(Reversed.downgraded)
            /\ TripleNames(Reversed.upgraded)
                  \subseteq TripleNames(diff[1].downgraded)
            /\ TripleNames(diff[1].downgraded)
                  \cap TripleNames(Reversed.downgraded)
                = { n \in DOMAIN A \cap DOMAIN B :
                      /\ A[n] # B[n]
                      /\ ~version_compare(A[n], B[n])
                      /\ ~version_compare(B[n], A[n]) }
            /\ TripleNames(diff[1].upgraded) \cup TripleNames(diff[1].downgraded)
                = TripleNames(Reversed.upgraded)
                    \cup TripleNames(Reversed.downgraded)

\* one name upgraded and one whose versions 1.0 and 1.0-rc1 are a tie
C26_Witness ==
    /\ diff # None
    /\ Len(diff[1].upgraded) = 1
    /\ \E i \in 1..Len(diff[1].downgraded) :
          /\ diff[1].downgraded[i].old_ver = V_1_0_rc1
          /\ diff[1].downgraded[i].new_ver = V_1_0

-----------------------------------------------------------------------------
(* Properties of the bisect command                                        *)

TheInvocation == invocations[1]

\* the license the invocation found at its start (a missing file is the
\* default Trial license); one invocation never changes the license type
LicenseAtStart ==
    TraceLicense(get_license(license_file).license.license_type, traces_before)

Paid == LicenseAtStart.license_type \in {"Standalone", "Premium"}

\* C21: under a Trial license with traces_used >= 3, can_trace is false and
\* the bisect command fails before any snapshot is read, any session is
\* created or any oracle question is asked; under a Standalone or Premium
\* license can_trace is true for every value of traces_used.
C21_TrialLimitStopsCommand ==
    TheInvocation.pc # "start" =>
        /\ ( /\ LicenseAtStart.license_type = "Trial"
             /\ LicenseAtStart.traces_used >= 3 )
           => /\ ~can_trace(LicenseAtStart)
              /\ TheInvocation.pc = "returned"
              /\ TheInvocation.returned = "TrialLimitReached"
              /\ ~TheInvocation.snapshots_read
              /\ ~TheInvocation.session_created
              /\ TheInvocation.session = None
              /\ TheInvocation.questions = 0
              /\ TheInvocation.ran = "none"
        /\ Paid
           => /\ can_trace(LicenseAtStart)
              /\ TheInvocation.returned # "TrialLimitReached"

\* a Trial license at exactly the limit stopped the command
C21_Witness ==
    /\ Len(invocations) = 1
    /\ LicenseAtStart = TraceLicense("Trial", 3)
    /\ TheInvocation.returned = "TrialLimitReached"

\* a paid license with more than three traces used ran a session to its end
C21_PaidWitness ==
    /\ Len(invocations) = 1
    /\ LicenseAtStart = TraceLicense("Standalone", 4)
    /\ TheInvocation.returned = "Ok"
    /\ TheInvocation.questions = 2

C27_LimitWitness ==
    /\ Len(invocations) = 1
    /\ TheInvocation.returned = "TrialLimitReached"
    /\ traces_before = 4

C27_SnapshotWitness ==
    /\ Len(invocations) = 1
    /\ TheInvocation.returned = "SnapshotFailure"
    /\ traces_before = 1

C27_EmptyWitness ==
    /\ Len(invocations) = 1
    /\ TheInvocation.returned = "NoPackageChanges"
    /\ traces_before = 1

C27_OracleWitness ==
    /\ Len(invocations) = 1
    /\ TheInvocation.returned = "OracleFailure"
    /\ TheInvocation.questions = 2
    /\ traces_before = 1

C27_AutomatedWitness ==
    /\ Len(invocations) = 1
    /\ TheInvocation.returned = "AutomatedRequiresPremium"
    /\ traces_before = 1

Succeeded == {p \in DOMAIN invocations : invocations[p].returned = "Ok"}

AllReturned == \A p \in DOMAIN invocations : invocations[p].pc = "returned"

\* C28: when several bisect invocations under the same Trial license file
\* overlap in time, the stored traces_used after all have finished equals its
\* value before plus the number of invocations that succeeded, and no more
\* than 3 invocations in total ever succeed under the Trial license.
C28_ConcurrentUsageCount ==
    AllReturned =>
        /\ StoredTraces(license_file) = traces_before + Cardinality(Succeeded)
        /\ traces_before <= FREE_TRACE_LIMIT =>
              traces_before + Cardinality(Succeeded) <= FREE_TRACE_LIMIT

\* the two halves of C28, each on its own
C28_NoLostUpdate ==
    AllReturned =>
        StoredTraces(license_file) = traces_before + Cardinality(Succeeded)

C28_LimitHolds ==
    (AllReturned /\ traces_before <= FREE_TRACE_LIMIT) =>
        traces_before + Cardinality(Succeeded) <= FREE_TRACE_LIMIT

\* C29: when the bisect command is started with the auto flag and the
\* license is not Standalone or Premium, the run falls back to the manual
\* bisection (run_manual is executed, run_automated is not); run_automated is
\* executed only when auto is set and the license is Standalone or Premium.
C29_AutomatedOnlyWhenLicensed ==
    /\ TheInvocation.ran = "automated" => (TheInvocation.auto /\ Paid)
    /\ (TheInvocation.auto /\ ~Paid /\ TheInvocation.ran # "none") =>
          TheInvocation.ran = "manual"
    /\ (TheInvocation.auto /\ ~Paid /\ TheInvocation.pc = "returned"
          /\ TheInvocation.session_created) =>
          TheInvocation.ran = "manual"

\* the auto flag under a Trial license: the manual run was made and ended Ok
C29_Witness ==
    /\ Len(invocations) = 1
    /\ TheInvocation.auto
    /\ LicenseAtStart.license_type = "Trial"
    /\ TheInvocation.ran = "manual"
    /\ TheInvocation.questions = 2
    /\ TheInvocation.returned = "Ok"

\* the auto flag under a Premium license: the automated run was made
C29_AutomatedWitness ==
    /\ Len(invocations) = 1
    /\ TheInvocation.auto
    /\ LicenseAtStart.license_type = "Premium"
    /\ TheInvocation.ran = "automated"

-----------------------------------------------------------------------------
(* Properties of the fix executor                                          *)

\* the FixAction kind a package-manager command carries out ("none" for a
\* command that is no package-manager command)
ActionOf(program) ==
    CASE program \in {"pacman -U", "apt-get install", "dnf downgrade"} ->
           "Downgrade"
      [] program \in {"pacman -R", "apt-get remove", "dnf remove"} -> "Remove"
      [] program = "apt-mark hold" -> "Pin"
      [] OTHER -> "none"

Executed == offer # None /\ offer[1].returned # "none"

\* C30: executing a fix never runs a package-manager command without the
\* matching user choice: choosing DoNothing runs no command at all, and
\* choosing Remove runs the removal command only after the user confirms the
\* 'Really remove' prompt; if the user declines, no command is run and the
\* operation returns Ok.
C30_NoCommandWithoutChoice ==
    offer # None =>
        /\ ~Executed => offer[1].commands = <<>>
        /\ Executed =>
             /\ \A i \in 1..Len(offer[1].commands) :
                   ActionOf(offer[1].commands[i].program) # "none" =>
                      /\ ActionOf(offer[1].commands[i].program) = Chosen.kind
                      /\ offer[1].commands[i].pkg = Chosen.pkg
             /\ Chosen.kind = "DoNothing" =>
                   (offer[1].commands = <<>> /\ offer[1].returned = "Ok")
             /\ Chosen.kind = "Remove" =>
                   /\ offer[1].confirm # "none"
                   /\ offer[1].commands # <<>> => offer[1].confirm = "yes"
                   /\ offer[1].confirm = "no" =>
                         (offer[1].commands = <<>> /\ offer[1].returned = "Ok")

\* Remove chosen and confirmed: the removal command was run
C30_Witness ==
    /\ Executed
    /\ Chosen.kind = "Remove"
    /\ offer[1].confirm = "yes"
    /\ offer[1].commands = <<[program |-> "pacman -R", pkg |-> Chosen.pkg]>>

\* Remove chosen and declined
C30_DeclinedWitness ==
    /\ Executed
    /\ Chosen.kind = "Remove"
    /\ offer[1].confirm = "no"
    /\ offer[1].returned = "Ok"

\* DoNothing chosen
C30_DoNothingWitness ==
    Executed /\ Chosen.kind = "DoNothing" /\ offer[1].returned = "Ok"

\* Downgrade chosen: the downgrade command was run
C30_DowngradeWitness ==
    /\ Executed
    /\ Chosen.kind = "Downgrade"
    /\ Len(offer[1].commands) = 1
    /\ offer[1].commands[1].program = "apt-get install"

====
